---- MODULE Spec2Model ----
(***************************************************************************)
(* CSVManager of main.py: the Record Store (finance_data.csv), the Backup  *)
(* Store (finance_data_backup.csv) and the operations initialize,          *)
(* _validate_datafile, _create_backup, add_entry, get_transactions and     *)
(* get_monthly_summary, driven by the menu loop of main_menu.              *)
(*                                                                         *)
(* A file is a record [kind, cols, rows]:                                  *)
(*   kind = "absent"   the path does not exist                             *)
(*   kind = "garbage"  the file exists and pd.read_csv raises on it        *)
(*                     (a zero-byte file, ragged lines)                    *)
(*   kind = "table"    a header line and data rows; cols says whether the  *)
(*                     header holds every column of COLUMNS                *)
(* A row is the text of its four cells.                                    *)
(***************************************************************************)
EXTENDS Integers, Sequences, FiniteSets, TLC

\* ---------------------------------------------------------------- bounds

\* Rows a Record Store may hold before add_entry is no longer offered.
MaxRows == 2

\* How many of the dates of DateStrings the user may type.
NumDates == 2

\* Depth at which the recursion of _validate_datafile is cut off and
\* reported as not terminating.
MaxDepth == 3

\* ---------------------------------------------------------- cell values

\* Dates in the format DATE_FORMAT, in chronological order.
DateStrings == <<"15-03-2024", "20-03-2024", "05-04-2024", "01-05-2024">>

\* The calendar month (dt.to_period("M")) of each date of DateStrings.
MonthStrings == <<"2024-03", "2024-03", "2024-04", "2024-05">>

ValidDates == {DateStrings[i] : i \in 1..NumDates}

\* A Date cell that does not match DATE_FORMAT.
BadDateText == "2024/03/15"

\* An Amount cell that is not a number.
BadAmountText == "abc"

\* An argument that was not given (None, or the empty string of a blank
\* prompt): falsy in `if start_date and end_date`.
NoDate == ""

\* Amounts as csv.DictWriter writes a float.
AmountStrings == {"100.0", "40.0"}

\* The cell texts pd.read_csv reads as missing (its default na_values).
NaValues == {"", "N/A", "NA", "NULL", "NaN", "n/a", "nan", "null"}

\* datetime.strptime / pd.to_datetime under DATE_FORMAT: the day's ordinal.
CanParseDate(s) == \E i \in 1..Len(DateStrings) : DateStrings[i] = s

ParseDate(s) == CHOOSE i \in 1..Len(DateStrings) : DateStrings[i] = s

\* pd.to_numeric of an Amount cell.
IsNumeric(a) == a \in AmountStrings

ToNumeric(a) == IF a = "100.0" THEN 100 ELSE 40

\* What the prompts of data_entry hand to add_entry besides the date: an
\* amount, a category and a free-form description. Two kinds of entry keep
\* the input set small: an income with an ordinary description and an
\* expense whose description is the text N/A.
Entries ==
    {[Amount |-> "100.0", Category |-> "Income", Description |-> "rent"],
     [Amount |-> "40.0", Category |-> "Expense", Description |-> "N/A"]}

\* The transactions add_entry is called with.
Transactions ==
    {[Date |-> d, Amount |-> e.Amount, Category |-> e.Category,
      Description |-> e.Description] : d \in ValidDates, e \in Entries}

NoTx == [Date |-> "", Amount |-> "", Category |-> "", Description |-> ""]

\* ---------------------------------------------------------------- files

Absent == [kind |-> "absent", cols |-> FALSE, rows |-> <<>>]

Garbage == [kind |-> "garbage", cols |-> FALSE, rows |-> <<>>]

\* pd.DataFrame(columns=COLUMNS).to_csv(CSV_FILE, index=False)
HeaderOnly == [kind |-> "table", cols |-> TRUE, rows |-> <<>>]

\* A cell as pd.read_csv hands it over: the NA markers become NaN, which
\* the model writes as the empty text (to_csv writes NaN as nothing).
ReadCell(c) == IF c \in NaValues THEN "" ELSE c

ReadRow(r) ==
    [Date |-> r.Date, Amount |-> r.Amount,
     Category |-> r.Category, Description |-> ReadCell(r.Description)]

\* pd.read_csv(path): ok = FALSE when it raises.
ReadCsv(f) ==
    [ok   |-> f.kind = "table",
     cols |-> f.cols,
     rows |-> [i \in 1..Len(f.rows) |-> ReadRow(f.rows[i])]]

\* df.to_csv(path, index=False)
ToCsv(df) == [kind |-> "table", cols |-> df.cols, rows |-> df.rows]

\* The try block of _validate_datafile: read, columns, dates, amounts.
IsValid(f) ==
    LET df == ReadCsv(f) IN
    /\ df.ok
    /\ df.cols
    /\ \A i \in 1..Len(df.rows) : CanParseDate(df.rows[i].Date)
    /\ \A i \in 1..Len(df.rows) : IsNumeric(df.rows[i].Amount)

\* ---------------------------------------------------------------- state

VARIABLES
    store,      \* the file CSV_FILE
    backup,     \* the file BACKUP_FILE
    pc,         \* "start": before initialize(); "menu": inside main_menu()
    last,       \* the operation that ran last and what it returned
    consumed    \* history: a restore moved the backup away and no
                \* add_entry has written a new one since

vars == <<store, backup, pc, last, consumed>>

\* What an operation reports: its name, what it returned ("True", "False",
\* "frame" for a DataFrame, "raised" when an exception left it), and the
\* operation's arguments and results.
Outcome(op, ret) ==
    [op |-> op, ret |-> ret, t |-> NoTx, dups |-> 0,
     start |-> NoDate, end |-> NoDate, rows |-> <<>>,
     restores |-> 0, diverged |-> FALSE, summary |-> <<>>]

\* ------------------------------------------------------------ validation

\* os.replace(src, dst): dst takes the content of src, src is gone.
OsReplaceCopies(src, dst) == [src |-> src, dst |-> src]

OsReplaceKeepsDst(src, dst) == [src |-> Absent, dst |-> dst]

OsReplace(src, dst) == [src |-> Absent, dst |-> src]

\* _validate_datafile, depth counting the restores made so far.
RECURSIVE ValidateDatafile(_, _, _)
ValidateDatafile(s, b, depth) ==
    IF IsValid(s)
    THEN [ret |-> "True", store |-> s, backup |-> b,
          restores |-> depth, diverged |-> FALSE]
    ELSE IF b.kind # "absent"
    THEN IF depth >= MaxDepth
         THEN [ret |-> "False", store |-> s, backup |-> b,
               restores |-> depth, diverged |-> TRUE]
         ELSE LET r == OsReplace(b, s)
              IN  ValidateDatafile(r.dst, r.src, depth + 1)
    ELSE [ret |-> "False", store |-> s, backup |-> b,
          restores |-> depth, diverged |-> FALSE]

\* initialize(): createFails says whether writing the new file raises.
Initialize(createFails) ==
    /\ pc = "start"
    /\ IF store.kind = "absent"
       THEN /\ store' = IF createFails THEN store ELSE HeaderOnly
            /\ last' = Outcome("initialize",
                               IF createFails THEN "False" ELSE "True")
            /\ UNCHANGED <<backup, consumed>>
       ELSE LET v == ValidateDatafile(store, backup, 0) IN
            /\ store' = v.store
            /\ backup' = v.backup
            /\ consumed' = (consumed \/ v.restores > 0)
            /\ last' = [Outcome("initialize", v.ret) EXCEPT
                            !.restores = v.restores,
                            !.diverged = v.diverged]
    /\ pc' = IF last'.ret = "True" THEN "menu" ELSE "start"

\* ------------------------------------------------------------- add_entry

\* _create_backup: nothing when CSV_FILE is absent; read_csv may raise.
CreateBackupSkipped(s, b) == [raised |-> FALSE, backup |-> b]

CreateBackup(s, b) ==
    IF s.kind = "absent"
    THEN [raised |-> FALSE, backup |-> b]
    ELSE LET df == ReadCsv(s) IN
         IF df.ok
         THEN [raised |-> FALSE, backup |-> ToCsv(df)]
         ELSE [raised |-> TRUE, backup |-> b]

\* open(CSV_FILE, "a") and writer.writerow(new_entry): one more line. On a
\* path that did not exist the line is the file's first, so read_csv takes
\* it for the header.
AppendRowTruncating(f, t) == [kind |-> "table", cols |-> f.cols, rows |-> <<t>>]

AppendRowDropped(f, t) == f

AppendRow(f, t) ==
    IF f.kind = "table"
    THEN [f EXCEPT !.rows = Append(@, t)]
    ELSE [kind |-> "table", cols |-> FALSE, rows |-> <<>>]

\* The row of a DataFrame get_transactions returns: Date a timestamp,
\* Amount a number, a missing Description as the empty text.
FrameRow(r) ==
    [Date |-> ParseDate(r.Date), Amount |-> ToNumeric(r.Amount),
     Category |-> r.Category, Description |-> ReadCell(r.Description)]

Count(seq, x) == Cardinality({i \in 1..Len(seq) : seq[i] = x})

\* History for add_entry: how many stored rows already read back as t.
Dups(f, t) ==
    IF IsValid(f)
    THEN Count([i \in 1..Len(f.rows) |-> FrameRow(f.rows[i])], FrameRow(t))
    ELSE 0

\* add_entry(date, amount, category, description); writeFails says whether
\* opening or writing CSV_FILE raises inside the try block.
AddEntry(t, writeFails) ==
    /\ pc = "menu"
    /\ Len(store.rows) < MaxRows
    /\ LET cb == CreateBackup(store, backup) IN
       IF cb.raised
       THEN /\ last' = [Outcome("add_entry", "raised") EXCEPT !.t = t]
            /\ pc' = "start"
            /\ UNCHANGED <<store, backup, consumed>>
       ELSE /\ backup' = cb.backup
            /\ consumed' = (consumed /\ cb.backup.kind = "absent")
            /\ store' = IF writeFails THEN store ELSE AppendRow(store, t)
            /\ last' = [Outcome("add_entry",
                                IF writeFails THEN "False" ELSE "True")
                            EXCEPT !.t = t, !.dups = Dups(store, t)]
            /\ pc' = pc

\* ------------------------------------------------------ get_transactions

\* mask = (df["Date"] >= start) & (df["Date"] <= end), on parsed dates.
DateMaskExclusive(dates, start, end) ==
    [i \in 1..Len(dates) |-> dates[i] > start /\ dates[i] < end]

DateMask(dates, start, end) ==
    [i \in 1..Len(dates) |-> dates[i] >= start /\ dates[i] <= end]

\* df.loc[mask]: the rows whose mask entry is True, in file order.
RECURSIVE Loc(_, _)
Loc(rows, mask) ==
    IF rows = <<>>
    THEN <<>>
    ELSE (IF Head(mask) THEN <<Head(rows)>> ELSE <<>>)
             \o Loc(Tail(rows), Tail(mask))

\* get_transactions(start_date, end_date): "frame" with the rows of the
\* DataFrame it returns, or "empty" for the pd.DataFrame() of its except
\* block. _display_transactions formats the category sums with ",.2f",
\* which raises on the text an Amount column of dtype object sums to.
GetTransactionsResult(f, start, end) ==
    LET df == ReadCsv(f)
        n == Len(df.rows)
        failed == [Outcome("get_transactions", "empty") EXCEPT
                       !.start = start, !.end = end]
    IN
    IF ~df.ok \/ ~df.cols \/ \E i \in 1..n : ~CanParseDate(df.rows[i].Date)
    THEN failed
    ELSE LET dates == [i \in 1..n |-> ParseDate(df.rows[i].Date)]
             bounded == start # NoDate /\ end # NoDate
             mask == IF bounded
                     THEN DateMask(dates, ParseDate(start), ParseDate(end))
                     ELSE [i \in 1..n |-> TRUE]
             picked == Loc(df.rows, mask)
             numeric == \A i \in 1..n : IsNumeric(df.rows[i].Amount)
         IN
         IF picked # <<>> /\ ~numeric
         THEN failed
         ELSE [Outcome("get_transactions", "frame") EXCEPT
                   !.start = start, !.end = end,
                   !.rows = [i \in 1..Len(picked) |-> FrameRow(picked[i])]]

\* The menu's "View transactions": the transaction of a successful
\* add_entry that ran just before is carried along in the outcome.
GetTransactions(start, end) ==
    /\ pc = "menu"
    /\ LET added == last.op = "add_entry" /\ last.ret = "True" IN
       last' = [GetTransactionsResult(store, start, end) EXCEPT
                    !.t = IF added THEN last.t ELSE NoTx,
                    !.dups = IF added THEN last.dups ELSE 0]
    /\ UNCHANGED <<store, backup, pc, consumed>>

\* --------------------------------------------------- get_monthly_summary

MonthOf(d) == MonthStrings[ParseDate(d)]

RECURSIVE SumAmounts(_, _, _)
SumAmounts(rows, month, category) ==
    IF rows = <<>>
    THEN 0
    ELSE (IF MonthOf(Head(rows).Date) = month /\ Head(rows).Category = category
          THEN ToNumeric(Head(rows).Amount) ELSE 0)
             + SumAmounts(Tail(rows), month, category)

\* get_monthly_summary(): per month the Income and Expense sums (0 where
\* a month has none) and Net = Income - Expense; "empty" for the
\* pd.DataFrame() of its except block and for a summary without rows.
GetMonthlySummaryResult(f) ==
    LET df == ReadCsv(f)
        n == Len(df.rows)
    IN
    IF \/ ~df.ok
       \/ ~df.cols
       \/ \E i \in 1..n : ~CanParseDate(df.rows[i].Date)
       \/ \E i \in 1..n : ~IsNumeric(df.rows[i].Amount)
       \/ n = 0
    THEN Outcome("get_monthly_summary", "empty")
    ELSE LET months == {MonthOf(df.rows[i].Date) : i \in 1..n} IN
         [Outcome("get_monthly_summary", "frame") EXCEPT
             !.summary =
                 [m \in months |->
                     [Income  |-> SumAmounts(df.rows, m, "Income"),
                      Expense |-> SumAmounts(df.rows, m, "Expense"),
                      Net     |-> SumAmounts(df.rows, m, "Income")
                                    - SumAmounts(df.rows, m, "Expense")]]]

GetMonthlySummary ==
    /\ pc = "menu"
    /\ last' = GetMonthlySummaryResult(store)
    /\ UNCHANGED <<store, backup, pc, consumed>>

\* ------------------------------------------------------------- main_menu

\* Choice 3 of main_menu: the program ends; it may be started again.
Exit ==
    /\ pc = "menu"
    /\ pc' = "start"
    /\ last' = Outcome("exit", "")
    /\ UNCHANGED <<store, backup, consumed>>

\* ----------------------------------------------------------- environment
\* The Record Store is an ordinary file: something outside the program may
\* damage a good one between two operations (one damage at a time), or
\* delete it. The Backup Store is left alone, so whatever it holds was put
\* there by the program.

SetLastCell(f, cell, text) ==
    [f EXCEPT !.rows = [@ EXCEPT ![Len(@)] = [@ EXCEPT ![cell] = text]]]

CorruptDate ==
    /\ IsValid(store) /\ store.rows # <<>>
    /\ store' = SetLastCell(store, "Date", BadDateText)

CorruptAmount ==
    /\ IsValid(store) /\ store.rows # <<>>
    /\ store' = SetLastCell(store, "Amount", BadAmountText)

CorruptHeader ==
    /\ IsValid(store)
    /\ store' = [store EXCEPT !.cols = FALSE]

CorruptFile ==
    /\ IsValid(store)
    /\ store' = Garbage

DeleteFile ==
    /\ store.kind # "absent"
    /\ store' = Absent

Corrupt ==
    /\ \/ CorruptDate
       \/ CorruptAmount
       \/ CorruptHeader
       \/ CorruptFile
       \/ DeleteFile
    /\ store' # store
    /\ last' = Outcome("corrupt", "")
    /\ UNCHANGED <<backup, pc, consumed>>

\* --------------------------------------------------------- specification

Init ==
    /\ store = Absent
    /\ backup = Absent
    /\ pc = "start"
    /\ last = Outcome("none", "")
    /\ consumed = FALSE

Next ==
    \/ \E createFails \in BOOLEAN : Initialize(createFails)
    \/ \E t \in Transactions, writeFails \in BOOLEAN : AddEntry(t, writeFails)
    \/ \E start, end \in ValidDates \cup {NoDate} : GetTransactions(start, end)
    \/ GetMonthlySummary
    \/ Exit
    \/ Corrupt

Spec == Init /\ [][Next]_vars

\* ---------------------------------------------------------------- claims

IsPrefix(a, b) ==
    /\ Len(a) <= Len(b)
    /\ \A i \in 1..Len(a) : a[i] = b[i]

StoreManagerOps ==
    {"initialize", "add_entry", "get_transactions", "get_monthly_summary"}

\* The rows get_transactions returns for an unbounded read of f.
AllFrameRows(f) == [i \in 1..Len(f.rows) |-> FrameRow(f.rows[i])]

\* C1: after every successful add_entry on a valid Record Store, the Backup
\* Store holds the content the Record Store had immediately before that
\* add_entry.
C1_BackupLagsByOneWrite ==
    [][(last'.op = "add_entry" /\ last'.ret = "True" /\ IsValid(store))
          => backup' = store]_vars

\* C2: initialize() on an existing invalid Record Store with a valid Backup
\* Store returns True, and the Record Store then holds what the Backup
\* Store held before the call.
C2_RestoreFromValidBackup ==
    [][(/\ last'.op = "initialize"
        /\ store.kind # "absent"
        /\ ~IsValid(store)
        /\ IsValid(backup))
          => (last'.ret = "True" /\ store' = backup)]_vars

C2_Witness ==
    /\ last.op = "initialize"
    /\ last.ret = "True"
    /\ last.restores = 1
    /\ store.rows # <<>>

\* C3: every run of the validate / restore / re-validate sequence ends, after
\* at most one restore, and it ends in failure when the Record Store and
\* the Backup Store are both invalid.
C3_ValidateTerminates ==
    [][last'.op = "initialize"
          => /\ ~last'.diverged
             /\ last'.restores <= 1
             /\ (store.kind # "absent" /\ ~IsValid(store) /\ ~IsValid(backup))
                   => last'.ret = "False"]_vars

C3_Witness ==
    /\ last.op = "initialize"
    /\ last.ret = "False"
    /\ last.restores = 1
    /\ ~last.diverged

\* C4 as claimed: across every Store Manager operation the rows of the
\* Record Store before it are a prefix of the rows after it.
C4_AppendOnly ==
    [][last'.op \in StoreManagerOps
          => IsPrefix(store.rows, store'.rows)]_vars

\* C4 as amended: the rows before a Store Manager operation are a prefix of
\* the rows after it, except when initialize() restores: then the Record
\* Store becomes what the Backup Store held.
C4_AppendOnlyExceptRestore ==
    [][last'.op \in StoreManagerOps
          => IF last'.restores > 0
             THEN store' = backup
             ELSE IsPrefix(store.rows, store'.rows)]_vars

C4_Witness ==
    /\ last.op = "add_entry"
    /\ last.ret = "True"
    /\ Len(store.rows) >= 2

\* C5: a Backup Store that exists holds a valid snapshot of the Record
\* Store (all columns, every date parseable, every amount numeric);
\* add_entry never writes an invalid content into it.
C5_BackupIsValidSnapshot ==
    backup.kind # "absent" => IsValid(backup)

\* C6 as claimed: get_transactions() without bounds, right after a
\* successful add_entry(t) on a valid Record Store, returns t exactly once.
C6_AddedExactlyOnce ==
    (/\ last.op = "get_transactions"
     /\ last.t # NoTx
     /\ last.start = NoDate /\ last.end = NoDate
     /\ IsValid(store))
        => Count(last.rows, FrameRow(last.t)) = 1

\* C6 as amended: it returns t once more often than the Record Store held a
\* row equal to t before the add_entry.
C6_AddedOnceMore ==
    (/\ last.op = "get_transactions"
     /\ last.t # NoTx
     /\ last.start = NoDate /\ last.end = NoDate
     /\ IsValid(store))
        => /\ last.ret = "frame"
           /\ Count(last.rows, FrameRow(last.t)) = last.dups + 1

C6_Witness ==
    /\ last.op = "get_transactions"
    /\ last.t # NoTx
    /\ last.start = NoDate /\ last.end = NoDate
    /\ IsValid(store)
    /\ last.dups = 1
    /\ Count(last.rows, FrameRow(last.t)) = 2

\* C7 as claimed: an add_entry that fails to write the new row returns
\* False and leaves the Record Store and the Backup Store as they were.
C7_WriteFailureLeavesStateUnchanged ==
    [][(last'.op = "add_entry" /\ last'.ret = "False")
          => (store' = store /\ backup' = backup)]_vars

\* C7 as amended: it returns False and leaves the Record Store as it was;
\* the Backup Store has by then been overwritten with what pandas read
\* from the Record Store (and is untouched only if there is no Record
\* Store).
C7_WriteFailureKeepsRecordStore ==
    [][(last'.op = "add_entry" /\ last'.ret = "False")
          => /\ store' = store
             /\ backup' = IF store.kind = "absent"
                          THEN backup
                          ELSE ToCsv(ReadCsv(store))]_vars

C7_Witness ==
    /\ last.op = "add_entry"
    /\ last.ret = "False"
    /\ store.rows # <<>>
    /\ backup = store

\* C8: no Store Manager operation ends by raising an exception to its
\* caller.
C8_NoExceptionEscapes ==
    last.op \in StoreManagerOps => last.ret # "raised"

\* C9: on a valid Record Store get_transactions(start, end) with both
\* bounds returns exactly the rows with start <= date <= end, in file order
\* (none is no error), and without both bounds it returns every row.
C9_DateRangeInclusive ==
    (last.op = "get_transactions" /\ IsValid(store))
        => /\ last.ret = "frame"
           /\ IF last.start # NoDate /\ last.end # NoDate
              THEN LET InRange(r) ==
                           /\ ParseDate(last.start) <= r.Date
                           /\ r.Date <= ParseDate(last.end)
                   IN  last.rows = SelectSeq(AllFrameRows(store), InRange)
              ELSE last.rows = AllFrameRows(store)

C9_Witness ==
    /\ last.op = "get_transactions"
    /\ IsValid(store)
    /\ last.start # NoDate
    /\ last.start = last.end
    /\ Len(store.rows) = 2
    /\ Len(last.rows) = 1

\* C10: a restore moves the Backup Store away; it stays absent until an
\* add_entry writes a new one; and an initialize() that finds the Record
\* Store invalid again before that returns False.
C10_RestoreConsumesBackup ==
    [][/\ (last'.op = "initialize" /\ last'.restores > 0)
             => backup'.kind = "absent"
       /\ (consumed /\ last'.op # "add_entry")
             => (backup.kind = "absent" /\ backup'.kind = "absent")
       /\ (/\ consumed
           /\ last'.op = "initialize"
           /\ store.kind # "absent"
           /\ ~IsValid(store))
             => last'.ret = "False"]_vars

C10_Witness ==
    /\ consumed
    /\ last.op = "initialize"
    /\ last.ret = "False"
    /\ store.kind = "table"

====
